---- MODULE Spec2Model ----
(***************************************************************************)
(* Model of the Pusher websocket client of src/client.go: the control loop *)
(* Client.runLoop, the caller-side API (Subscribe, Unsubscribe,            *)
(* Disconnect, BindGlobal) and the event dispatch triggerEventCallback.    *)
(*                                                                         *)
(* Three kinds of thread take steps:                                       *)
(*   - the control loop (variable loop is its position),                   *)
(*   - one calling thread (variable caller is its position),               *)
(*   - the environment: the relay behind the held transport, the           *)
(*     reconnect timer and the consumers of per-binding channels.          *)
(* A send on an unbuffered Go channel is a rendezvous.  Where the caller   *)
(* can observe the difference (Subscribe re-reads the registry, Disconnect *)
(* returns), the rendezvous (Accept...) and the handler body (...Body)     *)
(* are separate steps: the body runs concurrently with the returned caller.*)
(* A panic on the loop's goroutine ends the process (loop = "panic").      *)
(***************************************************************************)
EXTENDS Integers, Sequences, FiniteSets, TLC

(* ------------------------------ bounds -------------------------------- *)
\* number of Subscribe calls the calling thread makes
MaxSubscribes == 2
\* number of dial attempts (transport ids are 1..MaxDials)
MaxDials == 2
\* number of BindGlobal calls
MaxGlobals == 2

(* ------------------------------ values -------------------------------- *)
Nil == 0

\* the channel names the application uses.  A public channel takes the path of
\* a private one whose AuthFunc succeeds (lines 263-270 are the only difference),
\* so its behaviours are among those of "private-orders".
Names == {"private-orders", "presence-room"}

\* Channel.isPrivate / Channel.isPresence: kind derived from the name prefix
isPrivate(n) == n = "private-orders"
isPresence(n) == n = "presence-room"

\* names whose subscribe() can abort: AuthFunc error (private), Marshal error (presence)
Restricted == {n \in Names : isPrivate(n) \/ isPresence(n)}

NoArg == [ch |-> Nil, name |-> ""]
NoEvent == [channel |-> "", event |-> "", data |-> ""]
NoSnap == [bound |-> FALSE, globals |-> {}]

\* unmarshalledMember: decodes one member record; the caller drops the error,
\* so a malformed payload yields the zero Member
unmarshalledMember(d) == IF d = "{user_id:42}" THEN "Member(42)" ELSE "Member()"

\* unmarshalledMembers: decodes the presence roster of subscription_succeeded
unmarshalledMembers(d) == IF d = "{presence:42}" THEN "Members(42)" ELSE "Members()"

\* the (channel, event) pairs the application binds with Channel.Bind
BindPairs ==
    {<<"presence-room", "pusher:member_added">>}

VARIABLES
    Channels,        \* Client.Channels: sequence of channel entities (heap ids)
    heap,            \* the allocated *Channel objects, by id
    connection,      \* Client.connection: Nil or the id of the held transport
    socketID,        \* connection.socketID: Nil ("") until connection_established
    Connected,       \* Client.Connected
    connectTimer,    \* TRUE while the reconnect timer is armed
    dials,           \* dial attempts made so far
    loop,            \* position of the control loop
    cur,             \* the subscribe request the loop has received and is handling
    ev,              \* arguments of the running triggerEventCallback
    todo,            \* global handlers the running dispatch has not invoked yet
    resume,          \* index at which the subscription_succeeded scan resumes
    bindings,        \* Client.bindings: the (channel, event) pairs that are bound
    globalBindings,  \* Client.globalBindings: ids of the registered callbacks
    caller,          \* position of the calling thread
    arg,             \* what the calling thread is sending
    sent,            \* the messages the latest step handed to connection.send
    ret,             \* history: handles returned by Subscribe, per name
    log,             \* history: deliveries of the running dispatch
    frame,           \* history: the inbound frame whose dispatch is running
    snap,            \* history: the listeners registered when the running dispatch began
    lost,            \* history: names that were marked subscribed when a transport closed
    discReturned,    \* history: a Disconnect() call has returned
    failed,          \* history: the name whose subscribe() aborted on an AuthFunc / Marshal error
    dropped          \* history: names unsubscribed while connected and not subscribed again since

vars == <<Channels, heap, connection, socketID, Connected, connectTimer, dials,
          loop, cur, ev, todo, resume, bindings, globalBindings, caller, arg,
          sent, ret, log, frame, snap, lost, discReturned, failed, dropped>>

dispVars == <<ev, todo, resume, log, frame, snap>>
loopVars == <<loop, cur, ev, todo, resume, log, frame, snap>>
connVars == <<connection, socketID, Connected, connectTimer, dials>>
callerVars == <<caller, arg, ret, discReturned>>
bindVars == <<bindings, globalBindings>>

\* NewWithConfig: empty registry and listener maps, no connection, loop started
\* with the connect timer set to fire immediately
Init ==
    /\ Channels = <<>>
    /\ heap = <<>>
    /\ connection = Nil
    /\ socketID = Nil
    /\ Connected = FALSE
    /\ connectTimer = TRUE
    /\ dials = 0
    /\ loop = "select"
    /\ cur = NoArg
    /\ ev = NoEvent
    /\ todo = {}
    /\ resume = 0
    /\ bindings = {}
    /\ globalBindings = {}
    /\ caller = "idle"
    /\ arg = NoArg
    /\ sent = {}
    /\ ret = [n \in Names |-> {}]
    /\ log = <<>>
    /\ frame = NoEvent
    /\ snap = NoSnap
    /\ lost = {}
    /\ discReturned = FALSE
    /\ failed = ""
    /\ dropped = {}

\* the connection state the spec calls "fully connected": a transport is held
\* and connection_established has been received on it
FullyConnected == connection # Nil /\ socketID # Nil

\* the process is alive until a panic in the control loop ends it
Alive == loop # "panic"

\* entity e is an entry of the registry
InRegistry(e) == \E i \in 1..Len(Channels) : Channels[i] = e

\* the registry holds an entry with this name
Registered(n) == \E i \in 1..Len(Channels) : heap[Channels[i]].Name = n

(* --------------------------- the timer case --------------------------- *)
\* case <-connectTimer.C, lines 127-139: dial; on error re-arm the timer, else
\* hold the new transport (whose socketID is still empty)
Dial(ok) ==
    /\ loop = "select"
    /\ connectTimer
    /\ dials < MaxDials
    /\ dials' = dials + 1
    /\ IF ok
       THEN /\ connection' = dials + 1
            /\ socketID' = Nil
            /\ connectTimer' = FALSE
       ELSE /\ connectTimer' = TRUE
            /\ UNCHANGED <<connection, socketID>>
    /\ sent' = {}
    /\ UNCHANGED <<Connected, Channels, heap, loopVars, callerVars, bindVars, lost, failed, dropped>>

(* ------------------------- the calling thread ------------------------- *)
\* number of Subscribe requests made so far
Submitted == Len(Channels) + (IF loop = "sub" THEN 1 ELSE 0)

\* Subscribe, lines 95-100: the first registry entry with this name, Nil if none
RECURSIVE Lookup(_, _)
Lookup(n, i) ==
    IF i > Len(Channels) THEN Nil
    ELSE IF heap[Channels[i]].Name = n THEN Channels[i]
    ELSE Lookup(n, i + 1)

\* Subscribe up to its send, lines 95-102: scan the registry (read from the
\* caller's thread, unsynchronised with the loop's append at line 147) and
\* create a Channel if none is found
CallSubscribe(n) ==
    /\ Alive
    /\ caller = "idle"
    /\ Submitted < MaxSubscribes
    /\ IF Lookup(n, 1) # Nil
       THEN /\ arg' = [ch |-> Lookup(n, 1), name |-> n]
            /\ heap' = heap
       ELSE /\ heap' = Append(heap, [Name |-> n, Subscribed |-> FALSE])
            /\ arg' = [ch |-> Len(heap) + 1, name |-> n]
    /\ caller' = "subscribe"
    /\ dropped' = dropped \ {n}
    /\ sent' = {}
    /\ UNCHANGED <<Channels, connVars, loopVars, bindVars, ret, lost, failed, discReturned>>

\* Unsubscribe up to its send, line 108
CallUnsubscribe(n) ==
    /\ Alive
    /\ caller = "idle"
    /\ arg' = [ch |-> Nil, name |-> n]
    /\ caller' = "unsubscribe"
    /\ sent' = {}
    /\ UNCHANGED <<Channels, heap, connVars, loopVars, bindVars, ret, lost, failed, dropped, discReturned>>

\* Disconnect up to its send, line 90
CallDisconnect ==
    /\ Alive
    /\ caller = "idle"
    /\ ~discReturned
    /\ arg' = NoArg
    /\ caller' = "disconnect"
    /\ sent' = {}
    /\ UNCHANGED <<Channels, heap, connVars, loopVars, bindVars, ret, lost, failed, dropped, discReturned>>

\* BindGlobal, lines 298-300: the callback is added under a fresh key.  The map
\* is written from the caller's thread; if the loop is ranging over it (line 230)
\* the range may or may not yield the new entry, or the runtime aborts the
\* process on detecting the concurrent map write.
BindGlobal(outcome) ==
    /\ Alive
    /\ caller = "idle"
    /\ Cardinality(globalBindings) < MaxGlobals
    /\ outcome # "unseen" => loop = "globals"
    /\ LET h == Cardinality(globalBindings) + 1 IN
       /\ globalBindings' = globalBindings \cup {h}
       /\ todo' = IF outcome = "seen" THEN todo \cup {h} ELSE todo
    /\ loop' = IF outcome = "fatal" THEN "panic" ELSE loop
    /\ sent' = {}
    /\ UNCHANGED <<Channels, heap, connVars, cur, ev, resume, log, frame, snap, bindings,
                   callerVars, lost, failed, dropped>>

\* Channel.Bind: the (channel, event) pair gets a channel in Client.bindings
Bind(pair) ==
    /\ Alive
    /\ caller = "idle"
    /\ pair \notin bindings
    /\ bindings' = bindings \cup {pair}
    /\ sent' = {}
    /\ UNCHANGED <<Channels, heap, connVars, loopVars, globalBindings, callerVars, lost, failed, dropped>>

(* ------------------------- the subscribe case ------------------------- *)
\* case c := <-self._subscribe, line 141: the rendezvous; Subscribe returns its
\* handle (line 98 or 103)
AcceptSubscribe ==
    /\ loop = "select"
    /\ caller = "subscribe"
    /\ loop' = "sub"
    /\ cur' = arg
    /\ caller' = "idle"
    /\ arg' = NoArg
    /\ ret' = [ret EXCEPT ![arg.name] = @ \cup {arg.ch}]
    /\ sent' = {}
    /\ UNCHANGED <<Channels, heap, connVars, dispVars, bindVars, lost, failed, dropped, discReturned>>

\* Client.subscribe aborts: nil connection (lines 264, 273, 287), AuthFunc error
\* (line 266) or Marshal error (line 277)
subscribePanics(n, failing) == connection = Nil \/ n \in failing

\* the message Client.subscribe hands to connection.send, lines 255-288: the
\* authorization is computed from the connection's current socketID
subscribeMsg(n) == [type |-> "pusher:subscribe", channel |-> n, socketID |-> socketID]

\* mutant of SubscribeBody: an AuthFunc / Marshal error is ignored, the message
\* is sent and the loop goes on
SubscribeBodyIgnoresError(failing) ==
    /\ loop = "sub"
    /\ IF Connected /\ connection = Nil
       THEN /\ loop' = "panic"
            /\ sent' = {}
            /\ UNCHANGED <<Channels, cur, failed>>
       ELSE /\ sent' = IF Connected THEN {subscribeMsg(cur.name)} ELSE {}
            /\ Channels' = Append(Channels, cur.ch)
            /\ loop' = "select"
            /\ cur' = NoArg
            /\ failed' = IF Connected /\ cur.name \in failing THEN cur.name ELSE failed
    /\ UNCHANGED <<heap, connVars, dispVars, callerVars, bindVars, lost, dropped>>

\* lines 143-147: subscribe on the wire if Connected, then append to the registry
SubscribeBody(failing) ==
    /\ loop = "sub"
    /\ IF Connected /\ subscribePanics(cur.name, failing)
       THEN /\ loop' = "panic"
            /\ failed' = IF connection = Nil THEN failed ELSE cur.name
            /\ sent' = {}
            /\ UNCHANGED <<Channels, cur>>
       ELSE /\ sent' = IF Connected THEN {subscribeMsg(cur.name)} ELSE {}
            /\ Channels' = Append(Channels, cur.ch)
            /\ loop' = "select"
            /\ cur' = NoArg
            /\ failed' = failed
    /\ UNCHANGED <<heap, connVars, dispVars, callerVars, bindVars, lost, dropped>>

(* ------------------------ the unsubscribe case ------------------------ *)
\* the message Client.unsubscribe hands to connection.send, lines 291-294
unsubscribeMsg(n) == [type |-> "pusher:unsubscribe", channel |-> n, socketID |-> socketID]

\* case c := <-self._unsubscribe, lines 149-156: the rendezvous lets Unsubscribe
\* return; every entry with this name is unsubscribed if a connection is held
OnUnsubscribe ==
    /\ loop = "select"
    /\ caller = "unsubscribe"
    /\ caller' = "idle"
    /\ arg' = NoArg
    /\ IF connection # Nil /\ Registered(arg.name)
       THEN /\ sent' = {unsubscribeMsg(arg.name)}
            /\ heap' = [e \in 1..Len(heap) |->
                          IF heap[e].Name = arg.name /\ InRegistry(e)
                          THEN [heap[e] EXCEPT !.Subscribed = FALSE]
                          ELSE heap[e]]
       ELSE /\ sent' = {}
            /\ heap' = heap
    /\ dropped' = IF FullyConnected /\ Registered(arg.name)
                  THEN dropped \cup {arg.name} ELSE dropped
    /\ UNCHANGED <<Channels, connVars, loopVars, ret, discReturned, bindVars, lost, failed>>

(* ------------------------- the disconnect case ------------------------ *)
\* mutant of AcceptDisconnect: the loop also takes the send of a Disconnect call
\* made by a listener it is running, as if _disconnect were buffered
AcceptDisconnectOwnSend ==
    \/ /\ loop = "select"
       /\ caller = "disconnect"
       /\ loop' = "disc"
       /\ caller' = "idle"
       /\ discReturned' = TRUE
       /\ sent' = {}
       /\ UNCHANGED <<Channels, heap, connVars, cur, dispVars, arg, ret, bindVars, lost,
                      failed, dropped>>
    \/ /\ loop = "reentrant"
       /\ loop' = "disc"
       /\ sent' = {}
       /\ UNCHANGED <<Channels, heap, connVars, cur, dispVars, callerVars, bindVars, lost,
                      failed, dropped>>

\* case <-self._disconnect, line 199: the rendezvous; Disconnect returns
AcceptDisconnect ==
    /\ loop = "select"
    /\ caller = "disconnect"
    /\ loop' = "disc"
    /\ caller' = "idle"
    /\ discReturned' = TRUE
    /\ sent' = {}
    /\ UNCHANGED <<Channels, heap, connVars, cur, dispVars, arg, ret, bindVars, lost, failed, dropped>>

\* the names of the registry entries currently marked subscribed
SubscribedNames ==
    {heap[Channels[i]].Name : i \in {j \in 1..Len(Channels) : heap[Channels[j]].Subscribed}}

\* mutant of MarkAllUnsubscribed: the marking loop is left out
MarkNoneUnsubscribed == heap

\* lines 200-202 and 214-216: every registry entry is marked unsubscribed
MarkAllUnsubscribed ==
    [e \in 1..Len(heap) |->
        IF InRegistry(e) THEN [heap[e] EXCEPT !.Subscribed = FALSE] ELSE heap[e]]

\* lines 200-207: mark all unsubscribed, close the transport (a nil connection
\* is dereferenced at line 204), drop it, stop the timer, then acknowledge
DisconnectBody ==
    /\ loop = "disc"
    /\ heap' = MarkAllUnsubscribed
    /\ IF connection = Nil
       THEN /\ loop' = "panic"
            /\ UNCHANGED <<connection, socketID, connectTimer>>
       ELSE /\ connection' = Nil
            /\ socketID' = Nil
            /\ connectTimer' = FALSE
            /\ loop' = "ack"
    /\ sent' = {}
    /\ UNCHANGED <<Channels, Connected, dials, cur, dispVars, callerVars, bindVars, lost, failed, dropped>>

\* mutant of AckDisconnect: the return of line 208 is left out, the loop selects again
AckDisconnectContinues ==
    /\ loop = "ack"
    /\ loop' = "select"
    /\ sent' = {}
    /\ UNCHANGED <<Channels, heap, connVars, cur, dispVars, callerVars, bindVars, lost, failed, dropped>>

\* lines 207-208: the acknowledgment on onDisconnect is taken and the loop returns
AckDisconnect ==
    /\ loop = "ack"
    /\ loop' = "exited"
    /\ sent' = {}
    /\ UNCHANGED <<Channels, heap, connVars, cur, dispVars, callerVars, bindVars, lost, failed, dropped>>

(* --------------------------- the onClose case ------------------------- *)
\* mutant of OnClose: the closure is served while the loop is blocked in a
\* per-binding delivery, as if the delivery ran on another thread
OnCloseAnytime ==
    /\ loop \in {"select", "bind"}
    /\ connection # Nil
    /\ heap' = MarkAllUnsubscribed
    /\ lost' = lost \cup SubscribedNames
    /\ connection' = Nil
    /\ socketID' = Nil
    /\ connectTimer' = TRUE
    /\ sent' = {}
    /\ UNCHANGED <<Channels, Connected, dials, loopVars, callerVars, bindVars, failed, dropped>>

\* case <-onClose, lines 210-218: mark all unsubscribed, drop the connection,
\* re-arm the timer; Connected is left as it is
OnClose ==
    /\ loop = "select"
    /\ connection # Nil
    /\ heap' = MarkAllUnsubscribed
    /\ lost' = lost \cup SubscribedNames
    /\ connection' = Nil
    /\ socketID' = Nil
    /\ connectTimer' = TRUE
    /\ sent' = {}
    /\ UNCHANGED <<Channels, Connected, dials, loopVars, callerVars, bindVars, failed, dropped>>

(* ------------------------ triggerEventCallback ------------------------ *)
\* where the dispatch goes once the per-binding send is over: the range over
\* globalBindings (line 230), or straight to the return if the map is empty
AfterBinding == IF globalBindings = {} THEN "ret" ELSE "globals"

\* lines 225-232 up to the first blocking point: a bound (channel, event) makes
\* the loop block in `binding <- data`; otherwise it goes on to the global handlers
triggerEventCallback(channel, event, data, res) ==
    /\ ev' = [channel |-> channel, event |-> event, data |-> data]
    /\ log' = <<>>
    /\ resume' = res
    /\ snap' = [bound |-> <<channel, event>> \in bindings, globals |-> globalBindings]
    /\ IF <<channel, event>> \in bindings
       THEN /\ loop' = "bind"
            /\ todo' = {}
       ELSE /\ loop' = AfterBinding
            /\ todo' = globalBindings

\* line 227 completes: the consumer of the binding's channel receives the data
ConsumerRecv ==
    /\ loop = "bind"
    /\ log' = Append(log, 0)
    /\ todo' = globalBindings
    /\ loop' = AfterBinding
    /\ sent' = {}
    /\ UNCHANGED <<Channels, heap, connVars, cur, ev, resume, frame, snap, callerVars,
                   bindVars, lost, failed, dropped>>

\* mutant of InvokeGlobal: the range stops after the first handler
InvokeGlobalBreaks(h) ==
    /\ loop = "globals"
    /\ h \in todo
    /\ log' = Append(log, h)
    /\ todo' = {}
    /\ loop' = "ret"
    /\ sent' = {}
    /\ UNCHANGED <<Channels, heap, connVars, cur, ev, resume, frame, snap, callerVars,
                   bindVars, lost, failed, dropped>>

\* lines 230-232, one iteration: the map range yields some handler not yet
\* visited (Go leaves the order unspecified) and it is called
InvokeGlobal(h) ==
    /\ loop = "globals"
    /\ h \in todo
    /\ log' = Append(log, h)
    /\ todo' = todo \ {h}
    /\ loop' = IF todo = {h} THEN "ret" ELSE "globals"
    /\ sent' = {}
    /\ UNCHANGED <<Channels, heap, connVars, cur, ev, resume, frame, snap, callerVars,
                   bindVars, lost, failed, dropped>>

\* lines 230-232, an iteration whose handler calls Subscribe, Unsubscribe or
\* Disconnect on this client: the handler runs on the loop's goroutine and blocks
\* in the send of line 97 / 102, 108 or 90 on an unbuffered channel whose only
\* receiver is the select of this same goroutine.  The three calls block alike,
\* so one position, "reentrant", stands for the loop blocked in any of them.  (A
\* Channel that Subscribe allocated at line 101 is never handed to anyone.)
ReentrantCall(h) ==
    /\ loop = "globals"
    /\ h \in todo
    /\ log' = Append(log, h)
    /\ todo' = todo \ {h}
    /\ loop' = "reentrant"
    /\ sent' = {}
    /\ UNCHANGED <<Channels, heap, connVars, cur, ev, resume, frame, snap, callerVars,
                   bindVars, lost, failed, dropped>>

(* -------------------------- the onMessage case ------------------------ *)
\* decode, lines 250-253: a frame that is not an event object decodes to the
\* zero Event, and the error is dropped at line 159
decode(msg) == IF msg.event = "<malformed>" THEN NoEvent ELSE msg

\* smallest index j >= i of a registry entry named c, 0 if none
RECURSIVE NextMatch(_, _)
NextMatch(c, i) ==
    IF i > Len(Channels) THEN 0
    ELSE IF heap[Channels[i]].Name = c THEN i
    ELSE NextMatch(c, i + 1)

\* the handler is over: back to the select, nothing being dispatched
BackToSelect ==
    /\ loop' = "select"
    /\ ev' = NoEvent
    /\ log' = <<>>
    /\ resume' = 0
    /\ todo' = {}
    /\ frame' = NoEvent
    /\ snap' = NoSnap

\* lines 177-187 from index i on, for a subscription_succeeded on channel c:
\* each match is marked subscribed; on a presence channel the member roster is
\* dispatched from inside the scan, which resumes after the dispatch
ScanSucceeded(c, data, i) ==
    IF isPresence(c)
    THEN LET j == NextMatch(c, i) IN
         IF j = 0
         THEN /\ BackToSelect
              /\ heap' = heap
         ELSE /\ heap' = [heap EXCEPT ![Channels[j]] = [@ EXCEPT !.Subscribed = TRUE]]
              /\ triggerEventCallback(c, "pusher:subscription_succeeded", data, j + 1)
              /\ frame' = [channel |-> c, data |-> data,
                           event |-> "pusher_internal:subscription_succeeded"]
    ELSE /\ heap' = [e \in 1..Len(heap) |->
                        IF heap[e].Name = c /\ \E k \in i..Len(Channels) : Channels[k] = e
                        THEN [heap[e] EXCEPT !.Subscribed = TRUE]
                        ELSE heap[e]]
         /\ BackToSelect

\* triggerEventCallback returns to the handler that called it
DispatchReturn ==
    /\ loop = "ret"
    /\ IF resume = 0
       THEN /\ BackToSelect
            /\ heap' = heap
       ELSE ScanSucceeded(ev.channel, ev.data, resume)
    /\ sent' = {}
    /\ UNCHANGED <<Channels, connVars, cur, callerVars, bindVars, lost, failed, dropped>>

\* index of the first registry entry whose subscribe aborts, 0 if none
RECURSIVE FirstFailing(_, _)
FirstFailing(failing, i) ==
    IF i > Len(Channels) THEN 0
    ELSE IF ~heap[Channels[i]].Subscribed /\ heap[Channels[i]].Name \in failing THEN i
    ELSE FirstFailing(failing, i + 1)

\* mutant of Resubscribed: the test of line 171 is inverted
ResubscribedInverted(failing) ==
    {heap[Channels[i]].Name : i \in {k \in 1..Len(Channels) : heap[Channels[k]].Subscribed}}

\* lines 170-174: the names subscribe() is called for and sends, in registry
\* order, up to the first entry whose subscribe aborts
Resubscribed(failing) ==
    LET f == FirstFailing(failing, 1)
        upto == IF f = 0 THEN Len(Channels) ELSE f - 1
    IN {heap[Channels[i]].Name : i \in {k \in 1..upto : ~heap[Channels[k]].Subscribed}}

\* lines 165-174: case "pusher:connection_established": record the socketID, set
\* Connected, subscribe every registry entry not marked subscribed
OnConnectionEstablished(failing) ==
    /\ loop = "select"
    /\ connection # Nil
    /\ socketID = Nil
    /\ socketID' = connection
    /\ Connected' = TRUE
    /\ sent' = {[type |-> "pusher:subscribe", channel |-> n, socketID |-> connection] :
                   n \in Resubscribed(failing)}
    /\ loop' = IF FirstFailing(failing, 1) = 0 THEN "select" ELSE "panic"
    /\ failed' = IF FirstFailing(failing, 1) = 0 THEN failed
                 ELSE heap[Channels[FirstFailing(failing, 1)]].Name
    /\ UNCHANGED <<Channels, heap, connection, connectTimer, dials, cur, dispVars,
                   callerVars, bindVars, lost, dropped>>

\* payloads the relay puts in member and roster frames
MemberData == {"{user_id:42}"}
RosterData == {"{presence:42}"}

\* lines 176-187: case "pusher_internal:subscription_succeeded".  The relay
\* acknowledges a subscribe it was sent on this transport: once the transport is
\* established that is every registered channel (each was subscribed at line 144
\* or 172), and an acknowledgment may be late or repeated.
OnSubscriptionSucceeded(c, d) ==
    /\ loop = "select"
    /\ FullyConnected
    /\ Registered(c)
    /\ ScanSucceeded(c, unmarshalledMembers(d), 1)
    /\ sent' = {}
    /\ UNCHANGED <<Channels, connVars, cur, callerVars, bindVars, lost, failed, dropped>>

\* mutant of OnMember: the event is dispatched under its internal name
OnMemberInternalName(kind, c, d) ==
    /\ loop = "select"
    /\ FullyConnected
    /\ frame' = decode([channel |-> c, event |-> "pusher_internal:" \o kind, data |-> d])
    /\ triggerEventCallback(c, "pusher_internal:" \o kind, unmarshalledMember(d), 0)
    /\ sent' = {}
    /\ UNCHANGED <<Channels, heap, connVars, cur, callerVars, bindVars, lost, failed, dropped>>

\* lines 189-194: case "pusher_internal:member_added" / "pusher_internal:member_removed"
OnMember(kind, c, d) ==
    /\ loop = "select"
    /\ FullyConnected
    /\ frame' = decode([channel |-> c, event |-> "pusher_internal:" \o kind, data |-> d])
    /\ triggerEventCallback(c, "pusher:" \o kind, unmarshalledMember(d), 0)
    /\ sent' = {}
    /\ UNCHANGED <<Channels, heap, connVars, cur, callerVars, bindVars, lost, failed, dropped>>

\* application frames the relay sends, and one that is not an event object
AppFrames ==
    {[channel |-> "private-orders", event |-> "price", data |-> "{p:1}"],
     [channel |-> "", event |-> "<malformed>", data |-> ""]}

\* lines 195-196: default: any other event is dispatched under its own name with
\* its data verbatim; a frame that failed to decode arrives here as the zero Event
OnEvent(msg) ==
    /\ loop = "select"
    /\ FullyConnected
    /\ frame' = msg
    /\ triggerEventCallback(decode(msg).channel, decode(msg).event, decode(msg).data, 0)
    /\ sent' = {}
    /\ UNCHANGED <<Channels, heap, connVars, cur, callerVars, bindVars, lost, failed, dropped>>

(* --------------------------- the whole system ------------------------- *)
Next ==
    \/ \E ok \in BOOLEAN : Dial(ok)
    \/ \E n \in Names : CallSubscribe(n)
    \/ \E n \in Names : CallUnsubscribe(n)
    \/ CallDisconnect
    \/ \E outcome \in {"seen", "unseen", "fatal"} : BindGlobal(outcome)
    \/ \E pair \in BindPairs : Bind(pair)
    \/ AcceptSubscribe
    \/ \E failing \in SUBSET Restricted : SubscribeBody(failing)
    \/ OnUnsubscribe
    \/ AcceptDisconnect
    \/ DisconnectBody
    \/ AckDisconnect
    \/ OnClose
    \/ ConsumerRecv
    \/ \E h \in 1..MaxGlobals : InvokeGlobal(h)
    \/ \E h \in 1..MaxGlobals : ReentrantCall(h)
    \/ DispatchReturn
    \/ \E failing \in SUBSET Restricted : OnConnectionEstablished(failing)
    \/ \E c \in Names, d \in RosterData : OnSubscriptionSucceeded(c, d)
    \/ \E kind \in {"member_added", "member_removed"}, c \in {n \in Names : isPresence(n)},
          d \in MemberData : OnMember(kind, c, d)
    \/ \E msg \in AppFrames : OnEvent(msg)

Spec == Init /\ [][Next]_vars

\* the scheduling the loop can rely on: an armed timer fires and the select then
\* takes the timer case if the loop stays at its select; a handler that has
\* started runs on
FairSpec ==
    /\ Spec
    /\ WF_vars(\E ok \in BOOLEAN : Dial(ok))
    /\ WF_vars(\E failing \in SUBSET Restricted : SubscribeBody(failing))

(* ------------------------------- claims ------------------------------- *)
SubscribeMsgFor(n, sid) == [type |-> "pusher:subscribe", channel |-> n, socketID |-> sid]

AllUnsubscribed == \A i \in 1..Len(Channels) : ~heap[Channels[i]].Subscribed

\* how many times x occurs in the sequence q
Count(q, x) == Cardinality({i \in 1..Len(q) : q[i] = x})

\* the control loop handles connection_established in this step
EstablishedStep == socketID = Nil /\ socketID' # Nil

\* the control loop runs the body of the subscribe case in this step
SubscribeBodyStep == loop = "sub" /\ loop' # "sub"

\* the control loop runs the unsubscribe case in this step
UnsubscribeStep == caller = "unsubscribe" /\ caller' = "idle"

\* C1: idempotent subscribe: all Subscribe(n) calls on one client return the same
\* channel entity, whatever the interleaving with the control loop.
IdempotentSubscribe == \A n \in Names : Cardinality(ret[n]) <= 1

\* C2: no premature wire traffic: every subscribe / unsubscribe message is sent
\* while a transport is held and connection_established has been received on it.
NoPrematureWire == \A m \in sent : connection # Nil /\ m.socketID # Nil

DisconnectReturnsAfterTeardown == discReturned => (AllUnsubscribed /\ connection = Nil)

\* C5: a disconnect request always completes without failure, whatever the
\* connection state when it is processed.
DisconnectNeverFails == discReturned => loop # "panic"

\* C6: disconnect finality: once the loop has accepted a disconnect request it
\* accepts no subscribe, unsubscribe, inbound message, closure or timer firing
\* any more, and a caller blocked in Subscribe or Unsubscribe stays blocked.
DisconnectFinality ==
    [][/\ discReturned' => loop' \in {"disc", "ack", "exited", "panic"}
       /\ discReturned =>
            /\ Channels' = Channels
            /\ dials' = dials
            /\ socketID' = Nil \/ socketID' = socketID
            /\ sent' = {}
            /\ frame' = frame
            /\ lost' = lost
            /\ connectTimer' => connectTimer
            /\ ret' = ret
            /\ caller # "idle" => (caller' = caller /\ arg' = arg)]_vars

\* C6 witness: the loop has exited after a disconnect and a Subscribe call issued
\* afterwards is blocked in its send.
DisconnectFinalityWitness ==
    discReturned /\ loop = "exited" /\ caller = "subscribe"

\* C7: a Subscribe request for a new channel processed while not fully connected
\* sends nothing then and registers the channel as unsubscribed; the channel gets
\* its subscribe message when connection_established is next handled (here: if
\* that handler does not abort).
DeferredSubscribe ==
    [][/\ (SubscribeBodyStep /\ ~FullyConnected /\ ~InRegistry(cur.ch))
            => /\ sent' = {}
               /\ Channels' = Append(Channels, cur.ch)
               /\ ~heap'[cur.ch].Subscribed
       /\ (EstablishedStep /\ loop' # "panic")
            => \A i \in 1..Len(Channels) :
                  ~heap[Channels[i]].Subscribed
                     => SubscribeMsgFor(heap[Channels[i]].Name, socketID') \in sent']_vars

\* C8: Unsubscribe processed while not connected sends nothing, changes no
\* subscribed flag and fails in no way; Unsubscribe never changes the registry.
UnsubscribeNoOpWhenNotConnected ==
    [][UnsubscribeStep
          => /\ Channels' = Channels
             /\ ~FullyConnected => (sent' = {} /\ heap' = heap /\ loop' # "panic")]_vars

\* the listeners registered when the running dispatch began got what they are due
DeliveredOnce ==
    /\ Count(log, 0) = (IF snap.bound THEN 1 ELSE 0)
    /\ \A h \in snap.globals : Count(log, h) = 1

\* C9: for an inbound member_added frame the listener bound to (channel,
\* "pusher:member_added") and every global listener are each delivered the
\* synthetic event with the decoded member exactly once (never twice while the
\* dispatch runs, once when it is over); the internal name is never delivered.
MemberAddedDelivery ==
    frame.event = "pusher_internal:member_added" =>
        /\ ev = [channel |-> frame.channel, event |-> "pusher:member_added",
                 data |-> unmarshalledMember(frame.data)]
        /\ snap.bound => <<frame.channel, "pusher:member_added">> \in bindings
        /\ \A h \in 0..MaxGlobals : Count(log, h) <= 1
        /\ loop = "ret" => DeliveredOnce

\* C9 witness: a member_added dispatch is over, with the binding and two global
\* listeners served.
MemberAddedWitness ==
    /\ frame.event = "pusher_internal:member_added"
    /\ loop = "ret"
    /\ snap.bound
    /\ Cardinality(snap.globals) = 2
    /\ Len(log) = 3

\* the positions of the global handlers in the log are in registration order
InRegistrationOrder ==
    \A i, j \in 1..Len(log) : (i < j /\ log[i] # 0 /\ log[j] # 0) => log[i] < log[j]

\* the per-binding delivery, if any, precedes every global handler
BindingFirst == \A i \in 1..Len(log) : log[i] = 0 => i = 1

\* C10 as stated: for every dispatched event every registered global listener is
\* invoked exactly once, in BindGlobal registration order, after the per-binding
\* delivery.
GlobalsInRegistrationOrder ==
    /\ BindingFirst /\ InRegistrationOrder
    /\ loop = "ret" => DeliveredOnce

\* C10 as amended: every registered global listener is invoked exactly once, all
\* after the per-binding delivery, in an unspecified order (a map range).
GlobalsOnceAfterBinding ==
    /\ BindingFirst
    /\ \A h \in 1..MaxGlobals : Count(log, h) <= 1
    /\ loop = "ret" => DeliveredOnce

\* C10 witness: a dispatch is over in which the second registered listener was
\* invoked before the first, both after the per-binding delivery.
GlobalsOnceWitness ==
    loop = "ret" /\ log = <<0, 2, 1>>

\* C11: every subscribe message for a private-* or presence-* channel is
\* authorized with the socketID the relay assigned to the transport currently
\* held: never with an empty socketID, never with that of an earlier transport.
AuthorizedWithCurrentSocketID ==
    \A m \in sent :
        (m.type = "pusher:subscribe" /\ m.channel \in Restricted)
            => (connection # Nil /\ m.socketID # Nil /\ m.socketID = connection)

\* C12: registry uniqueness: the registry holds at most one entry per channel name.
RegistryUnique ==
    \A i, j \in 1..Len(Channels) :
        heap[Channels[i]].Name = heap[Channels[j]].Name => i = j

\* C14: connected implies that a transport handle with a known socketID is held;
\* in particular the client no longer counts as connected once a closure has
\* been processed.
ConnectedImpliesTransport == Connected => (connection # Nil /\ socketID # Nil)

\* C19: single-writer ownership: the calling thread never reads the registry
\* (the scan at the start of Subscribe) while the control loop is inside the
\* handler that writes it (between the receive of a request and its append).
NoConcurrentRegistryAccess ==
    [][(caller = "idle" /\ caller' = "subscribe") => loop # "sub"]_vars

\* the step is the handling of a subscription_succeeded frame for channel c:
\* the scan from the select, or its resumption after a roster dispatch
SucceededStep(c) ==
    /\ FullyConnected
    /\ loop \in {"select", "ret"}
    /\ loop = "ret" => (ev.event = "pusher:subscription_succeeded" /\ ev.channel = c)
    /\ isPresence(c) => (ev'.event = "pusher:subscription_succeeded" /\ ev'.channel = c)
    /\ sent' = {}
    /\ UNCHANGED <<Channels, connVars, cur, callerVars, bindVars>>

\* C13: a channel's subscribed flag is true only while a transport is held and
\* connection_established has been received on it; the flag is set only by the
\* handling of a subscription_succeeded frame for that channel, and is cleared
\* by unsubscribe, by a transport closure and by disconnect.
SubscribedOnlyWhileConnected ==
    /\ [](\A e \in 1..Len(heap) : heap[e].Subscribed => FullyConnected)
    /\ [][/\ \A e \in 1..Len(heap) :
                (~heap[e].Subscribed /\ heap'[e].Subscribed) => SucceededStep(heap[e].Name)
          /\ UnsubscribeStep =>
                \A i \in 1..Len(Channels) :
                    heap[Channels[i]].Name = arg.name => ~heap'[Channels[i]].Subscribed
          /\ (connection # Nil /\ connection' = Nil) => AllUnsubscribed'
          /\ (loop = "disc" /\ loop' # "disc") => AllUnsubscribed']_vars

\* C13 witness: a channel is marked subscribed on a transport obtained after a
\* closure that had cleared the flag of a subscribed channel.
SubscribedWitness ==
    /\ lost # {}
    /\ FullyConnected
    /\ \E i \in 1..Len(Channels) : heap[Channels[i]].Subscribed

\* C16: per-binding delivery is a blocking rendezvous on the control loop: while
\* the loop is blocked in the send to a bound consumer it takes no subscribe,
\* unsubscribe, disconnect, inbound frame, closure or timer firing and has invoked
\* no global listener for the event; it leaves only by the consumer's receive.
BlockingDelivery ==
    [][loop = "bind" =>
          /\ log = <<>>
          /\ UNCHANGED <<Channels, connVars, cur, ev, resume, frame, ret, discReturned, lost>>
          /\ sent' = {}
          /\ \A e \in 1..Len(heap) : heap'[e] = heap[e]
          /\ caller # "idle" => UNCHANGED <<caller, arg>>
          /\ \/ loop' = "bind" /\ log' = log
             \/ loop' \in {"globals", "ret"} /\ log' = <<0>>]_vars

\* C16 witness: the loop is blocked in a per-binding delivery while a global
\* listener is registered and a Disconnect call waits in its send.
BlockingDeliveryWitness ==
    loop = "bind" /\ globalBindings # {} /\ caller = "disconnect"

\* C17: reentrancy deadlock: once a global listener running on the control loop
\* has called Subscribe, Unsubscribe or Disconnect on the same client, that call
\* never returns and the loop processes no further input: no request is taken
\* (blocked callers stay blocked), no frame, closure or timer firing is handled.
ReentrancyDeadlock ==
    [][loop = "reentrant" =>
          /\ loop' = "reentrant"
          /\ UNCHANGED <<Channels, connVars, cur, dispVars, ret, discReturned, lost>>
          /\ sent' = {}
          /\ \A e \in 1..Len(heap) : heap'[e] = heap[e]
          /\ caller # "idle" => UNCHANGED <<caller, arg>>]_vars

\* C17 witness: the loop is blocked in a listener's reentrant call while another
\* thread's Disconnect waits in its send.
ReentrancyWitness ==
    loop = "reentrant" /\ caller = "disconnect"

\* C18: authorization failure is fatal: when AuthFunc fails for a private channel
\* whose subscribe is being issued (on a Subscribe request or during resubscription)
\* that step sends no subscribe message for the channel and aborts the loop, which
\* then processes no further input.
AuthFailureFatal ==
    [][/\ (failed' # failed /\ isPrivate(failed'))
            => /\ loop' = "panic"
               /\ \A m \in sent' : m.channel # failed'
               /\ loop = "sub" => (Channels' = Channels /\ cur.name = failed')
       /\ failed # "" =>
            /\ loop = "panic" /\ loop' = "panic"
            /\ sent' = {}
            /\ UNCHANGED <<Channels, heap, connVars, cur, dispVars, callerVars>>]_vars

\* C18 witness: the loop has aborted on an authorization failure during the
\* resubscription of a channel that was subscribed on a transport since closed.
AuthFailureWitness ==
    failed = "private-orders" /\ failed \in lost /\ loop = "panic" /\ FullyConnected

\* C20: unsubscribe is durable: a name unsubscribed while connected gets no
\* subscribe message again, not even in the resubscription that follows a
\* reconnect, unless the caller has called Subscribe for it again.
UnsubscribeDurable ==
    \A m \in sent : m.type = "pusher:subscribe" => m.channel \notin dropped

\* C15: reconnection never gives up: whenever a retry is pending (the timer is
\* armed after a failed dial or a closure, and the dial budget is not used up),
\* another dial is eventually attempted unless a disconnect request is taken
\* first, whatever Subscribe and Unsubscribe calls arrive in between.
ReconnectNeverGivesUp ==
    \A k \in 0..(MaxDials - 1) :
        (connectTimer /\ dials = k /\ ~discReturned) ~> (dials > k \/ discReturned)
====
